---- MODULE Spec2Model ----
(***************************************************************************)
(* A model of dedup.py: validation of the root arguments (check_dir_args,  *)
(* is_same_or_subdir), the two walks of walk_dirs over the target and the  *)
(* read-only roots, the confirmation prompt of remove_with_confirm and the *)
(* pruning pass of remove_empty_directories, as main and deduplicate       *)
(* sequence them.                                                          *)
(*                                                                         *)
(* A path is a sequence of names below the file system's root directory    *)
(* (<<>> is "/"); a name is a sequence of one-character strings, so that   *)
(* get_extension computes on the characters.  A file's content is its      *)
(* sequence of bytes.  The model follows POSIX (os.name # 'nt').           *)
(***************************************************************************)
EXTENDS Naturals, Sequences, FiniteSets, TLC

VARIABLES
    dirs,        \* the real directories that exist (paths)
    files,       \* the regular files that exist: path -> content
    links,       \* symbolic links to directories: path -> canonical path
    targets,     \* args.target
    readonly,    \* args.read_only
    confirm,     \* not args.yes
    remove_empty,\* args.remove_empty_dirs
    pc,          \* the position of the program
    catalog,     \* the rows of the File table, in insertion (id) order
    dir_stats,   \* DedupStats.dir_stats: root path -> DirStats
    walk,        \* the walk in progress (walk_dirs or the pruner's os.walk)
    dir_stack,   \* remove_empty_directories' dir_stack
    pending,     \* the call of remove_with_confirm blocked in input()
    verdict,     \* what check_dir_args found ("none" before it ran)
    exit_code,   \* the status the process ended with ("running" before)
    trace,       \* history: what the run evaluated, asked to remove, removed
    files0,      \* history: files at the start of the run
    dirs0,       \* history: dirs at the start of the run
    arg_child,   \* a function called on its own: its first argument
    arg_parent,  \* a function called on its own: its second argument
    result,      \* a function called on its own: the value it returned
    line         \* what input() returned in the step just taken (NoLine if none)

vars == <<dirs, files, links, targets, readonly, confirm, remove_empty, pc,
          catalog, dir_stats, walk, dir_stack, pending, verdict, exit_code,
          trace, files0, dirs0, arg_child, arg_parent, result, line>>

\* everything but the line read
besides_line == <<dirs, files, links, targets, readonly, confirm, remove_empty,
                  pc, catalog, dir_stats, walk, dir_stack, pending, verdict,
                  exit_code, trace, files0, dirs0, arg_child, arg_parent, result>>

----------------------------------------------------------------------------
(* Bounds of the model *)

\* at most this many files exist at the start of a run
MaxFiles == 3
\* at most this many roots in each of args.target and args.read_only
MaxRoots == 2
\* at most this many characters in a file name given to get_extension
MaxNameLen == 3

----------------------------------------------------------------------------
(* The directory trees the runs are made on *)

Name(s) == <<s>>
T   == <<Name("t")>>
TS  == <<Name("t"), Name("s")>>
TSE == <<Name("t"), Name("s"), Name("e")>>
U   == <<Name("u")>>
R   == <<Name("r")>>
RS  == <<Name("r"), Name("s")>>
\* a path at which nothing exists
Missing == <<Name("m")>>
\* a symbolic link in "/" and one inside the target tree
L   == <<Name("l")>>
TL  == <<Name("t"), Name("l")>>

\* no line: answer = None
NoLine == <<"None">>

\* an impossible path, for Python's None
NoPath == << <<>> >>

SkeletonDirs == {<<>>, T, TS, TSE, U, R, RS}

NameAX == <<"a", ".", "x">>
NameBY == <<"b", ".", "y">>
NameCX == <<"c", ".", "x">>
NameDX == <<"d", ".", "x">>
NameEX == <<"e", ".", "x">>
NameFY == <<"f", ".", "y">>

\* the places where a file may be
FileSlots == {Append(T, NameAX), Append(T, NameBY), Append(TS, NameCX),
              Append(U, NameDX), Append(R, NameEX), Append(RS, NameFY)}

\* the contents a file may have: of the same size, differing in the last byte
Contents == {<<0, 0>>, <<0, 1>>}

\* the files of fs that hold content c
Holding(fs, c) == {f \in DOMAIN fs : fs[f] = c}

\* the file systems a run may start on.  Only the equality of two contents
\* matters to the program, so of two file systems that differ by exchanging
\* the two contents one is taken: the one with more files of <<0, 0>>
FileSystems ==
    {fs \in UNION {[S -> Contents] :
                     S \in {X \in SUBSET FileSlots : Cardinality(X) <= MaxFiles}} :
        Cardinality(Holding(fs, <<0, 0>>)) >= Cardinality(Holding(fs, <<0, 1>>))}

\* the symbolic links a file system may hold
LinkConfigs == {<<>>, [p \in {L} |-> T], [p \in {L} |-> TS], [p \in {TL} |-> R]}

Front(p) == SubSeq(p, 1, Len(p) - 1)
Last(p) == p[Len(p)]

RECURSIVE SeqsUpTo(_, _)
SeqsUpTo(S, n) ==
    IF n = 0 THEN {<<>>}
    ELSE LET shorter == SeqsUpTo(S, n - 1)
         IN  shorter \cup {Append(q, x) : q \in {z \in shorter : Len(z) = n - 1}, x \in S}

----------------------------------------------------------------------------
(* pathlib and os.path *)

\* Path.resolve(strict=True): the canonical path, symbolic links followed
RECURSIVE ResolveFrom(_, _, _)
ResolveFrom(lk, done, rest) ==
    IF rest = <<>> THEN done
    ELSE LET nxt == Append(done, Head(rest))
         IN  IF nxt \in DOMAIN lk
             THEN ResolveFrom(lk, lk[nxt], Tail(rest))
             ELSE ResolveFrom(lk, nxt, Tail(rest))

Resolve(p) == ResolveFrom(links, <<>>, p)

\* st_ino of a real directory
Inode(p) ==
    CASE p = <<>> -> 2
      [] p = T    -> 11
      [] p = TS   -> 12
      [] p = TSE  -> 13
      [] p = U    -> 21
      [] p = R    -> 31
      [] p = RS   -> 32
      [] OTHER    -> 0

\* Path.samefile: os.stat of both (links followed), same inode
samefile(a, b) == Inode(Resolve(a)) = Inode(Resolve(b))

\* Path.exists, Path.is_dir, Path.is_symlink
exists(p) == Resolve(p) \in dirs \/ Resolve(p) \in DOMAIN files
is_dir(p) == Resolve(p) \in dirs
is_symlink(p) == p \in DOMAIN links

\* the mutant of AncestorSame that looks at the parent directory only
AncestorSameParentOnly(child_path, parent_path) ==
    Len(child_path) > 0 /\ samefile(Front(child_path), parent_path)

\* the while loop of is_same_or_subdir: strip the last part, compare
RECURSIVE AncestorSame(_, _)
AncestorSame(child_path, parent_path) ==
    IF Len(child_path) > 0
    THEN LET up == Front(child_path)
         IN  IF samefile(up, parent_path) THEN TRUE
             ELSE AncestorSame(up, parent_path)
    ELSE FALSE

is_same_or_subdir(maybe_child, maybe_parent) ==
    LET child_path  == Resolve(maybe_child)
        parent_path == Resolve(maybe_parent)
    IN  IF samefile(child_path, parent_path) THEN TRUE
        ELSE AncestorSame(child_path, parent_path)

\* os.path.splitext on a file name: the extension starts at the last dot,
\* unless only dots precede it
LastDot(name) ==
    LET ds == {i \in 1..Len(name) : name[i] = "."}
    IN  IF ds = {} THEN 0 ELSE CHOOSE i \in ds : \A j \in ds : j <= i

splitext(name) ==
    LET d == LastDot(name)
    IN  IF d > 0 /\ \E k \in 1..(d - 1) : name[k] # "."
        THEN <<SubSeq(name, 1, d - 1), SubSeq(name, d, Len(name))>>
        ELSE <<name, <<>>>>

get_extension(file) ==
    LET base == splitext(file)[1]
        ext  == splitext(file)[2]
    IN  IF ext = <<>> /\ base[1] = "." THEN base ELSE ext

----------------------------------------------------------------------------
(* check_dir_args *)

\* the pairs of itertools.permutations(target_dirs, 2): by position
Permutations2(s) ==
    {<<s[ij[1]], s[ij[2]]>> : ij \in {x \in (1..Len(s)) \X (1..Len(s)) : x[1] # x[2]}}

\* the first loop: every root exists, is no symbolic link and is a directory
RootIsBad(d) == ~exists(d) \/ is_symlink(d) \/ ~is_dir(d)

\* the mutant of TargetsOverlap that compares no pair of target roots
TargetsOverlapNever(target_dirs) == FALSE

\* for d1, d2 in itertools.permutations(target_dirs, 2): is_same_or_subdir
TargetsOverlap(target_dirs) ==
    \E pr \in Permutations2(target_dirs) : is_same_or_subdir(pr[1], pr[2])

\* the mutant of TargetAgainstReadonly that forgets the subdirectory case
TargetAgainstReadonlySameOnly(target_dirs, readonly_dirs) ==
    \E i \in 1..Len(target_dirs), j \in 1..Len(readonly_dirs) :
        samefile(target_dirs[i], readonly_dirs[j])

TargetAgainstReadonly(target_dirs, readonly_dirs) ==
    \E i \in 1..Len(target_dirs), j \in 1..Len(readonly_dirs) :
        is_same_or_subdir(target_dirs[i], readonly_dirs[j])

\* "ok" when check_dir_args returns, otherwise what made it call sys.exit(1)
check_dir_args(target_dirs, readonly_dirs) ==
    LET all == target_dirs \o readonly_dirs
        bad == {i \in 1..Len(all) : RootIsBad(all[i])}
    IN  IF bad # {}
        THEN LET d == all[CHOOSE i \in bad : \A j \in bad : i <= j]
             IN  IF ~exists(d) THEN "missing"
                 ELSE IF is_symlink(d) THEN "symlink"
                 ELSE "notdir"
        ELSE IF TargetsOverlap(target_dirs) THEN "overlap_targets"
        ELSE IF TargetAgainstReadonly(target_dirs, readonly_dirs) THEN "overlap_readonly"
        ELSE "ok"

----------------------------------------------------------------------------
(* DedupStats, the File table, os.walk *)

\* DirStats.__init__
NewDirStats ==
    [is_target_dir |-> FALSE, dup_file_count |-> 0, dup_file_size |-> 0,
     total_file_count |-> 0, total_file_size |-> 0, total_dir_count |-> 0,
     empty_dir_count |-> 0]

\* stats.dir_stats[d] of a defaultdict: the entry, made on first access
Touch(ds, d) == IF d \in DOMAIN ds THEN ds ELSE ds @@ (d :> NewDirStats)

\* the row File(full_path, extension, size)
FileRow(full_path, extension, size) ==
    [full_path |-> full_path, extension |-> extension, size |-> size]

RemoveAt(s, i) == SubSeq(s, 1, i - 1) \o SubSeq(s, i + 1, Len(s))

\* one entry of the history
Event(ev, path, other, phase) ==
    [ev |-> ev, path |-> path, other |-> other, phase |-> phase]

\* os.scandir of a directory, as os.walk splits it: the names of the
\* subdirectories (symbolic links to directories included) and of the files
ListDirs(top) ==
    {p \in dirs \cup DOMAIN links : Len(p) = Len(top) + 1 /\ Front(p) = top}
ListFiles(top) ==
    {p \in DOMAIN files : Len(p) = Len(top) + 1 /\ Front(p) = top}

\* os.walk recurses into the subdirectories that are no symbolic links
WalkInto(top) == {p \in ListDirs(top) : p \notin DOMAIN links}

\* the orders in which scandir may list a set of entries
Orders(S) == {q \in [1..Cardinality(S) -> S] : \A i, j \in 1..Cardinality(S) : q[i] = q[j] => i = j}

\* filecmp.cmp(f1, f2, shallow=False) of two existing regular files
filecmp(f1, f2) ==
    Len(files[f1]) = Len(files[f2]) /\ files[f1] = files[f2]

\* the mutant of Candidates that filters on the size only
CandidatesBySize(size, extension) ==
    {i \in 1..Len(catalog) : catalog[i].size = size}

\* session.query(File).filter(size).filter(extension): positions in id order
Candidates(size, extension) ==
    {i \in 1..Len(catalog) : catalog[i].size = size /\ catalog[i].extension = extension}

\* the loop over rows: the first row that compares equal.  [kind |-> "match",
\* row |-> its position], "none", or "error" when filecmp.cmp meets a row whose
\* file is gone before any row matched (FileNotFoundError)
RECURSIVE ScanRows(_, _, _)
ScanRows(cur, cands, from) ==
    LET rest == {i \in cands : i >= from}
    IN  IF rest = {} THEN [kind |-> "none", row |-> 0]
        ELSE LET i == CHOOSE k \in rest : \A j \in rest : k <= j
             IN  IF catalog[i].full_path \notin DOMAIN files
                 THEN [kind |-> "error", row |-> i]
                 ELSE IF filecmp(cur, catalog[i].full_path)
                 THEN [kind |-> "match", row |-> i]
                 ELSE ScanRows(cur, cands, i + 1)

\* the mutant of FindMatch that compares the first row of the bucket only
FindMatchFirstOnly(cur, size, extension) ==
    LET cands == Candidates(size, extension)
    IN  IF cands = {} THEN [kind |-> "none", row |-> 0]
        ELSE LET i == CHOOSE k \in cands : \A j \in cands : k <= j
             IN  IF catalog[i].full_path \notin DOMAIN files
                 THEN [kind |-> "error", row |-> i]
                 ELSE IF filecmp(cur, catalog[i].full_path)
                 THEN [kind |-> "match", row |-> i]
                 ELSE [kind |-> "none", row |-> 0]

FindMatch(cur, size, extension) == ScanRows(cur, Candidates(size, extension), 1)

\* the mutant of target_file_dir that stops at the file's own directory
target_file_dir_parent(ds, full_path) == Front(full_path)

\* the mutant of ClimbToRoot that looks at the file's directory only
ClimbToRootOnce(ds, tfp) == IF tfp \in DOMAIN ds THEN tfp ELSE NoPath

\* walk_dirs.target_file_dir: the nearest ancestor that is a key of dir_stats;
\* NoPath when the loop reaches "/" without finding one (RuntimeError)
RECURSIVE ClimbToRoot(_, _)
ClimbToRoot(ds, tfp) ==
    IF tfp \in DOMAIN ds THEN tfp
    ELSE IF tfp = <<>> THEN NoPath
    ELSE ClimbToRoot(ds, Front(tfp))

target_file_dir(ds, full_path) == ClimbToRoot(ds, Front(full_path))

----------------------------------------------------------------------------
(* remove_with_confirm *)

\* str.lower on one character
Lower(c) ==
    CASE c = "Y" -> "y" [] c = "N" -> "n" [] c = "S" -> "s" [] c = "Q" -> "q"
      [] OTHER -> c

\* the lines a user may type at the prompt
Answers == {<<>>, <<"y">>, <<"Y", "e", "s">>, <<"n">>, <<"S", "k", "i", "p">>,
            <<"q">>, <<"x">>}

\* answer[0].lower(), or the empty string for an empty line
FirstLower(answer) == IF answer = <<>> THEN <<>> ELSE <<Lower(answer[1])>>

\* the mutant of Decide that compares the first character as typed
DecideCaseSensitive(isdir, answer) ==
    LET a == IF answer = <<>> THEN <<>> ELSE <<answer[1]>>
    IN  IF ~isdir /\ a = <<"s">> THEN "skip"
        ELSE IF a = <<"q">> THEN "quit"
        ELSE IF a \notin {<<>>, <<"y">>, <<"n">>} THEN "again"
        ELSE IF a = <<"y">> THEN "yes"
        ELSE "no"

\* the mutant of Decide that takes the skip branch for a directory too
DecideSkipAny(isdir, answer) ==
    LET a == FirstLower(answer)
    IN  IF a = <<"s">> THEN "skip"
        ELSE IF a = <<"q">> THEN "quit"
        ELSE IF a \notin {<<>>, <<"y">>, <<"n">>} THEN "again"
        ELSE IF a = <<"y">> THEN "yes"
        ELSE "no"

\* the mutant of Decide that has no quit branch: q is one more line to refuse
DecideNoQuit(isdir, answer) ==
    LET a == FirstLower(answer)
    IN  IF ~isdir /\ a = <<"s">> THEN "skip"
        ELSE IF a \notin {<<>>, <<"y">>, <<"n">>} THEN "again"
        ELSE IF a = <<"y">> THEN "yes"
        ELSE "no"

\* one turn of the prompt loop on the line read: what the loop decides
\*   "skip"   the skip branch: leave the loop with skip = parent
\*   "quit"   sys.exit(0)
\*   "again"  answer = None: prompt again
\*   "yes", "no"  leave the loop; the file or directory is removed on "yes"
\* ('' not in 'yn' is False in Python: an empty line leaves the loop)
Decide(isdir, answer) ==
    LET a == FirstLower(answer)
    IN  IF ~isdir /\ a = <<"s">> THEN "skip"
        ELSE IF a = <<"q">> THEN "quit"
        ELSE IF a \notin {<<>>, <<"y">>, <<"n">>} THEN "again"
        ELSE IF a = <<"y">> THEN "yes"
        ELSE "no"

\* the mutant of IsEmptyDir that looks for files only
IsEmptyDirOfFiles(d) == ListFiles(d) = {}

\* os.rmdir succeeds on an empty directory (ENOTEMPTY otherwise)
IsEmptyDir(d) == ListDirs(d) = {} /\ ListFiles(d) = {}

----------------------------------------------------------------------------
(* The run: main, deduplicate, walk_dirs, remove_empty_directories *)

NoWalk(phase) ==
    [phase |-> phase, di |-> 0, stack |-> <<>>, root |-> NoPath, todo |-> {},
     skip |-> NoPath]

NoPending ==
    [path |-> NoPath, isdir |-> FALSE, caller |-> "none", file |-> NoPath,
     row |-> 0, root |-> NoPath]

\* dirs_to_walk of the walk in progress
RootsOf(phase) == IF phase = "readonly" THEN readonly ELSE targets

\* the root d of the for loop the walk is in
CurRoot == RootsOf(walk.phase)[walk.di]

Without(f, x) == [y \in DOMAIN f \ {x} |-> f[y]]

\* an exception nothing catches ends the process
Crash ==
    /\ pc' = "crashed"
    /\ exit_code' = "exception"
    /\ UNCHANGED <<dirs, files, links, targets, readonly, confirm, remove_empty,
                   catalog, dir_stats, walk, dir_stack, pending, trace, files0,
                   dirs0, arg_child, arg_parent, result, verdict>>

\* sys.exit(status)
Exit(status) ==
    /\ pc' = "exited"
    /\ exit_code' = status
    /\ UNCHANGED <<dirs, files, links, targets, readonly, confirm, remove_empty,
                   catalog, dir_stats, walk, dir_stack, pending, trace, files0,
                   dirs0, arg_child, arg_parent, result, verdict>>

\* the mutant of Rejects that exits only on a root that does not exist
RejectsMissingOnly(v) == v = "missing"

\* main goes on to deduplicate only if check_dir_args returned: each of its
\* failures ends in sys.exit(1)
Rejects(v) == v # "ok"

\* main up to deduplicate: check_dir_args exits, or the target walk begins
Main ==
    /\ line' = NoLine
    /\ pc = "start"
    /\ LET v == check_dir_args(targets, readonly)
       IN  /\ verdict' = v
           /\ IF Rejects(v)
              THEN /\ pc' = "exited"
                   /\ exit_code' = "failure"
                   /\ UNCHANGED walk
              ELSE /\ pc' = "walk"
                   /\ walk' = NoWalk("target")
                   /\ UNCHANGED exit_code
    /\ UNCHANGED <<dirs, files, links, targets, readonly, confirm, remove_empty,
                   catalog, dir_stats, dir_stack, pending, trace, files0, dirs0,
                   arg_child, arg_parent, result>>

\* for d in dirs_to_walk: s = stats.dir_stats[d]; ...; skip = None
BeginRoot ==
    /\ line' = NoLine
    /\ pc = "walk"
    /\ walk.todo = {} /\ walk.stack = <<>>
    /\ walk.di < Len(RootsOf(walk.phase))
    /\ LET d == RootsOf(walk.phase)[walk.di + 1]
       IN  /\ dir_stats' = [Touch(dir_stats, d) EXCEPT
                               ![d].is_target_dir = (walk.phase = "target")]
           /\ walk' = [walk EXCEPT !.di = @ + 1, !.stack = <<d>>,
                                   !.root = NoPath, !.skip = NoPath]
    /\ UNCHANGED <<dirs, files, links, targets, readonly, confirm, remove_empty,
                   pc, catalog, dir_stack, pending, exit_code, trace, files0,
                   dirs0, arg_child, arg_parent, result, verdict>>

\* the mutant of StillSkipping that only recognises the skipped directory itself
StillSkippingSameOnly(root, skip) == skip # NoPath /\ samefile(root, skip)

\* if skip is not None: if is_same_or_subdir(root, skip): continue
StillSkipping(root, skip) == skip # NoPath /\ is_same_or_subdir(root, skip)

\* the mutant of CountDir that counts only the directories that hold a file
CountDirWithFiles(ds, d, root) ==
    IF ListFiles(root) = {} THEN ds
    ELSE [ds EXCEPT ![d].total_dir_count = @ + 1]

\* s.total_dir_count += 1, for the directory root that os.walk(d) yielded
CountDir(ds, d, root) == [ds EXCEPT ![d].total_dir_count = @ + 1]

\* for root, dirs, files in os.walk(d): the next directory, the skip test,
\* total_dir_count
VisitDir ==
    /\ line' = NoLine
    /\ pc = "walk"
    /\ walk.todo = {} /\ walk.stack # <<>>
    /\ LET top == Head(walk.stack)
           d   == CurRoot
       IN  IF top \notin dirs
           THEN /\ walk' = [walk EXCEPT !.stack = Tail(@)]
                /\ UNCHANGED <<dir_stats, trace>>
           ELSE \E order \in Orders(WalkInto(top)) :
                  IF StillSkipping(top, walk.skip)
                  THEN /\ walk' = [walk EXCEPT !.stack = order \o Tail(@),
                                               !.root = top]
                       /\ trace' = Append(trace, Event("skipped", top, d, walk.phase))
                       /\ UNCHANGED dir_stats
                  ELSE /\ walk' = [walk EXCEPT !.stack = order \o Tail(@),
                                               !.root = top, !.skip = NoPath,
                                               !.todo = ListFiles(top)]
                       /\ dir_stats' = CountDir(dir_stats, d, top)
                       /\ trace' = Append(trace, Event("visit", top, d, walk.phase))
    /\ UNCHANGED <<dirs, files, links, targets, readonly, confirm, remove_empty,
                   pc, catalog, dir_stack, pending, exit_code, files0, dirs0,
                   arg_child, arg_parent, result, verdict>>

\* the mutant of SkipBreak that goes on with the remaining files
SkipBreakNever(skip, todo, file) == todo \ {file}

\* if skip is not None: break -- the files left to the for loop
SkipBreak(skip, todo, file) == IF skip # NoPath THEN {} ELSE todo \ {file}

\* the mutant of RowsAfterMatch that leaves the matched row in the table
RowsAfterMatchKept(row) == catalog

\* the mutant of RowsAfterMatch that deletes the matched row in both walks
RowsAfterMatchBothWalks(row) == RemoveAt(catalog, row)

\* session.delete(target_file) in the read-only walk: the rows after a match
RowsAfterMatch(row) ==
    IF walk.phase = "readonly" THEN RemoveAt(catalog, row) ELSE catalog

\* the mutant of KeepRow that inserts every target file, duplicate or not
KeepRowAlways(is_dup) == walk.phase = "target"

\* the mutant of KeepRow that inserts the unmatched files of both walks
KeepRowUnmatched(is_dup) == ~is_dup

\* if walking_target_dirs and not is_dup: session.add(new_file_rec)
KeepRow(is_dup) == walk.phase = "target" /\ ~is_dup

\* the mutant of NewFileRec that records the directory walked for the file
NewFileRecOfRoot(file) ==
    FileRow(Front(file), get_extension(Last(file)), Len(files[file]))

\* new_file_rec = File(cur_file_full_path, cur_file_extension, cur_file_size)
NewFileRec(file) == FileRow(file, get_extension(Last(file)), Len(files[file]))

\* session.add(new_file_rec) when KeepRow: the rows after the loop body
RowsAfterFile(rows, file, is_dup) ==
    IF KeepRow(is_dup) THEN Append(rows, NewFileRec(file)) ELSE rows

\* what follows remove_with_confirm in walk_dirs, once the prompt (if any) was
\* answered with decision: the removal, session.delete in the read-only walk,
\* skip, break
WalkAfterConfirm(file, row, path, decision, ds, tr) ==
    LET skip == IF decision = "skip" THEN Front(path) ELSE NoPath
        other == IF path = file THEN catalog[row].full_path ELSE file
    IN  IF decision = "yes" /\ path \notin DOMAIN files
        THEN Crash
        ELSE /\ files' = IF decision = "yes" THEN Without(files, path) ELSE files
             /\ catalog' = RowsAfterFile(RowsAfterMatch(row), file, TRUE)
             /\ walk' = [walk EXCEPT !.skip = skip,
                                     !.todo = SkipBreak(skip, walk.todo, file)]
             /\ dir_stats' = ds
             /\ trace' = tr \o
                    (IF decision = "yes"
                     THEN <<Event("rm", path, other, walk.phase)>> ELSE <<>>) \o
                    (IF decision = "skip"
                     THEN <<Event("skip", skip, path, walk.phase)>> ELSE <<>>)
             /\ pc' = "walk"
             /\ pending' = NoPending
             /\ UNCHANGED <<dirs, links, targets, readonly, confirm, remove_empty,
                            dir_stack, exit_code, files0, dirs0, arg_child,
                            arg_parent, result, verdict>>

\* the mutant of DupOwner that counts a read-only match on the root being walked
DupOwnerCurrent(ds, d, full_path) == d

\* the root whose duplicate counters a match increments: s in the target walk,
\* stats.dir_stats[target_file_dir(target_file)] in the read-only walk
DupOwner(ds, d, full_path) ==
    IF walk.phase = "target" THEN d ELSE target_file_dir(ds, full_path)

\* the mutant of Doomed that deletes the file of the catalog in both walks
DoomedRow(file, target_file) == target_file.full_path

\* the file passed to remove_with_confirm: the current file in the target walk,
\* the catalog's file in the read-only walk
Doomed(file, target_file) ==
    IF walk.phase = "target" THEN file ELSE target_file.full_path

\* for file in files: one file of the listing, to the end of the loop body or
\* to the prompt of remove_with_confirm
EvalFile ==
    /\ line' = NoLine
    /\ pc = "walk"
    /\ walk.todo # {}
    /\ \E file \in walk.todo :
        IF file \notin DOMAIN files
        THEN Crash
        ELSE
          LET d    == CurRoot
              ext  == get_extension(Last(file))
              size == Len(files[file])
              ds1  == [dir_stats EXCEPT ![d].total_file_count = @ + 1,
                                        ![d].total_file_size = @ + size]
              tr1  == Append(trace, Event("eval", file, d, walk.phase))
              m    == FindMatch(file, size, ext)
          IN  CASE m.kind = "error" -> Crash
                [] m.kind = "none" ->
                     /\ catalog' = RowsAfterFile(catalog, file, FALSE)
                     /\ walk' = [walk EXCEPT
                                   !.todo = SkipBreak(walk.skip, walk.todo, file)]
                     /\ dir_stats' = ds1
                     /\ trace' = tr1
                     /\ UNCHANGED <<dirs, files, links, targets, readonly, confirm,
                                    remove_empty, pc, dir_stack, pending, exit_code,
                                    files0, dirs0, arg_child, arg_parent, result, verdict>>
                [] m.kind = "match" ->
                     LET target_file == catalog[m.row]
                         path  == Doomed(file, target_file)
                         other == IF path = file THEN target_file.full_path ELSE file
                         owner == DupOwner(ds1, d, target_file.full_path)
                     IN  IF owner = NoPath
                         THEN Crash
                         ELSE
                           LET ds2 == [Touch(ds1, owner) EXCEPT
                                         ![owner].dup_file_count = @ + 1,
                                         ![owner].dup_file_size = @ + size]
                               tr2 == Append(tr1, Event("ask", path, other, walk.phase))
                           IN  IF confirm
                               THEN /\ pc' = "prompt"
                                    /\ pending' = [path |-> path, isdir |-> is_dir(path),
                                                   caller |-> "walk", file |-> file,
                                                   row |-> m.row, root |-> d]
                                    /\ dir_stats' = ds2
                                    /\ trace' = tr2
                                    /\ UNCHANGED <<dirs, files, links, targets,
                                                   readonly, confirm, remove_empty,
                                                   catalog, walk, dir_stack,
                                                   exit_code, files0, dirs0,
                                                   arg_child, arg_parent, result, verdict>>
                               ELSE WalkAfterConfirm(file, m.row, path, "yes", ds2, tr2)

\* the mutant of WantsPruning that prunes whatever the option says
WantsPruningAlways(remove_empty_dirs) == TRUE

\* if remove_empty_dirs: remove_empty_directories(target_dirs, stats, confirm)
WantsPruning(remove_empty_dirs) == remove_empty_dirs

\* the end of walk_dirs: deduplicate goes on to the read-only walk, then to
\* remove_empty_directories when remove_empty_dirs is set; main returns
EndWalk ==
    /\ line' = NoLine
    /\ pc = "walk"
    /\ walk.todo = {} /\ walk.stack = <<>>
    /\ walk.di = Len(RootsOf(walk.phase))
    /\ IF walk.phase = "target"
       THEN /\ walk' = NoWalk("readonly")
            /\ UNCHANGED <<pc, exit_code>>
       ELSE IF WantsPruning(remove_empty)
       THEN /\ walk' = NoWalk("prune")
            /\ pc' = "prune"
            /\ UNCHANGED exit_code
       ELSE /\ pc' = "done"
            /\ exit_code' = "success"
            /\ UNCHANGED walk
    /\ UNCHANGED <<dirs, files, links, targets, readonly, confirm, remove_empty,
                   catalog, dir_stats, dir_stack, pending, trace, files0, dirs0,
                   arg_child, arg_parent, result, verdict>>

\* for d in target_dirs: s = stats.dir_stats[d]; os.walk(d)
PruneBeginRoot ==
    /\ line' = NoLine
    /\ pc = "prune"
    /\ walk.stack = <<>>
    /\ walk.di < Len(targets)
    /\ LET d == targets[walk.di + 1]
       IN  /\ dir_stats' = Touch(dir_stats, d)
           /\ walk' = [walk EXCEPT !.di = @ + 1, !.stack = <<d>>, !.root = NoPath]
    /\ UNCHANGED <<dirs, files, links, targets, readonly, confirm, remove_empty,
                   pc, catalog, dir_stack, pending, exit_code, trace, files0,
                   dirs0, arg_child, arg_parent, result, verdict>>

\* what follows remove_with_confirm in the first pass: os.rmdir on "yes"; an
\* OSError is not caught there
PruneAfterConfirm(root, d, decision, tr) ==
    IF decision = "yes" /\ ~(root \in dirs /\ IsEmptyDir(root))
    THEN Crash
    ELSE /\ dirs' = IF decision = "yes" THEN dirs \ {root} ELSE dirs
         /\ trace' = tr \o (IF decision = "yes"
                            THEN <<Event("rm", root, d, "prune")>> ELSE <<>>)
         /\ pc' = "prune"
         /\ pending' = NoPending
         /\ UNCHANGED <<files, links, targets, readonly, confirm, remove_empty,
                        catalog, dir_stats, walk, dir_stack, exit_code, files0,
                        dirs0, arg_child, arg_parent, result, verdict>>

\* the first pass over one directory of os.walk(d): an empty directory is
\* counted and passed to remove_with_confirm, one holding only directories is
\* pushed on dir_stack
PruneVisitDir ==
    /\ line' = NoLine
    /\ pc = "prune"
    /\ walk.stack # <<>>
    /\ LET root == Head(walk.stack)
           d    == targets[walk.di]
       IN  IF root \notin dirs
           THEN /\ walk' = [walk EXCEPT !.stack = Tail(@)]
                /\ UNCHANGED <<dirs, dir_stats, dir_stack, pending, pc, trace,
                               exit_code>>
           ELSE \E order \in Orders(WalkInto(root)) :
                  /\ walk' = [walk EXCEPT !.stack = order \o Tail(@), !.root = root]
                  /\ IF ListFiles(root) = {} /\ ListDirs(root) = {}
                     THEN LET ds == [dir_stats EXCEPT ![d].empty_dir_count = @ + 1]
                              tr == Append(trace, Event("ask", root, d, "prune"))
                          IN  /\ dir_stats' = ds
                              /\ UNCHANGED <<dir_stack, exit_code>>
                              /\ IF confirm
                                 THEN /\ pc' = "prompt"
                                      /\ pending' = [path |-> root, isdir |-> is_dir(root),
                                                     caller |-> "prune", file |-> NoPath,
                                                     row |-> 0, root |-> d]
                                      /\ trace' = tr
                                      /\ UNCHANGED dirs
                                 ELSE /\ dirs' = dirs \ {root}
                                      /\ trace' = Append(tr, Event("rm", root, d, "prune"))
                                      /\ UNCHANGED <<pc, pending>>
                     ELSE IF ListFiles(root) = {}
                     THEN /\ dir_stack' = Append(dir_stack, <<root, d>>)
                          /\ UNCHANGED <<dirs, dir_stats, pending, pc, trace, exit_code>>
                     ELSE UNCHANGED <<dirs, dir_stats, dir_stack, pending, pc, trace,
                                      exit_code>>
    /\ UNCHANGED <<files, links, targets, readonly, confirm, remove_empty,
                   catalog, files0, dirs0, arg_child, arg_parent, result, verdict>>

\* the end of the first pass
PruneEnd ==
    /\ line' = NoLine
    /\ pc = "prune"
    /\ walk.stack = <<>>
    /\ walk.di = Len(targets)
    /\ pc' = "retry"
    /\ UNCHANGED <<dirs, files, links, targets, readonly, confirm, remove_empty,
                   catalog, dir_stats, walk, dir_stack, pending, exit_code, trace,
                   files0, dirs0, arg_child, arg_parent, result, verdict>>

\* the mutant of RetryCounts that counts only the directories os.rmdir removed
RetryCountsRemoved(decision) == decision = "yes"

\* stats.dir_stats[target_dir].empty_dir_count += 1 follows every call of
\* remove_with_confirm that raised nothing
RetryCounts(decision) == TRUE

\* the mutant of AfterENOTEMPTY that queues the directory again
AfterENOTEMPTYRequeued(stk, entry) == <<entry>> \o stk

\* except OSError as e: if e.errno != errno.ENOTEMPTY: raise; nothing is
\* appended to dir_stack, the while loop goes on with what is left of it
AfterENOTEMPTY(stk, entry) == stk

\* the error remove_with_confirm raises when it goes on to the removal of a
\* directory of dir_stack: os.remove of a path that is no directory any more
\* fails with ENOENT, os.rmdir of a directory that holds something with
\* ENOTEMPTY
RemovalErrno(empty_dir, decision) ==
    IF decision # "yes" THEN "none"
    ELSE IF empty_dir \notin dirs THEN "ENOENT"
    ELSE IF ~IsEmptyDir(empty_dir) THEN "ENOTEMPTY"
    ELSE "none"

\* the mutant of Reraised that swallows every OSError
ReraisedNever(errno) == FALSE

\* except OSError as e: if e.errno != errno.ENOTEMPTY: raise
Reraised(errno) == errno \notin {"none", "ENOTEMPTY"}

\* what follows remove_with_confirm in the second pass: os.rmdir on "yes",
\* ENOTEMPTY is caught and the count skipped; any other OSError is raised
RetryAfterConfirm(empty_dir, target_dir, decision, tr, stk) ==
    IF Reraised(RemovalErrno(empty_dir, decision))
    THEN Crash
    ELSE LET raised  == RemovalErrno(empty_dir, decision) # "none"
             removed == decision = "yes" /\ ~raised
         IN  /\ dirs' = IF removed THEN dirs \ {empty_dir} ELSE dirs
             /\ dir_stats' = IF ~raised /\ RetryCounts(decision)
                             THEN [dir_stats EXCEPT ![target_dir].empty_dir_count = @ + 1]
                             ELSE dir_stats
             /\ trace' = tr \o (IF removed
                                THEN <<Event("rm", empty_dir, target_dir, "retry")>>
                                ELSE <<>>)
             /\ pc' = "retry"
             /\ pending' = NoPending
             /\ dir_stack' = IF raised
                             THEN AfterENOTEMPTY(stk, <<empty_dir, target_dir>>)
                             ELSE stk
             /\ UNCHANGED <<files, links, targets, readonly, confirm, remove_empty,
                            catalog, walk, exit_code, files0, dirs0, arg_child,
                            arg_parent, result, verdict>>

\* the mutant of Pop that takes the oldest entry
PopFirst(stk) == [item |-> Head(stk), rest |-> Tail(stk)]

\* dir_stack.pop(): the entry appended last, and the stack without it
Pop(stk) == [item |-> stk[Len(stk)], rest |-> Front(stk)]

\* while dir_stack: empty_dir, target_dir = dir_stack.pop(); ...
PruneRetry ==
    /\ line' = NoLine
    /\ pc = "retry"
    /\ dir_stack # <<>>
    /\ LET top == Pop(dir_stack).item
           tr  == Append(trace, Event("ask", top[1], top[2], "retry"))
       IN  IF confirm
           THEN /\ dir_stack' = Pop(dir_stack).rest
                /\ pc' = "prompt"
                /\ pending' = [path |-> top[1], isdir |-> is_dir(top[1]),
                               caller |-> "retry", file |-> NoPath, row |-> 0,
                               root |-> top[2]]
                /\ trace' = tr
                /\ UNCHANGED <<dirs, files, links, targets, readonly, confirm,
                               remove_empty, catalog, dir_stats, walk, exit_code,
                               files0, dirs0, arg_child, arg_parent, result, verdict>>
           ELSE RetryAfterConfirm(top[1], top[2], "yes", tr, Pop(dir_stack).rest)

\* remove_empty_directories returns, then deduplicate and main
PruneDone ==
    /\ line' = NoLine
    /\ pc = "retry"
    /\ dir_stack = <<>>
    /\ pc' = "done"
    /\ exit_code' = "success"
    /\ UNCHANGED <<dirs, files, links, targets, readonly, confirm, remove_empty,
                   catalog, dir_stats, walk, dir_stack, pending, trace, files0,
                   dirs0, arg_child, arg_parent, result, verdict>>

\* a line typed at the prompt of remove_with_confirm
Answer ==
    /\ pc = "prompt"
    /\ \E answer \in Answers :
        LET decision == Decide(pending.isdir, answer)
        IN  /\ line' = answer
            /\ CASE decision = "again" -> UNCHANGED besides_line
                 [] decision = "quit"  -> Exit("success")
                 [] OTHER ->
                      CASE pending.caller = "walk" ->
                             WalkAfterConfirm(pending.file, pending.row,
                                              pending.path, decision, dir_stats,
                                              trace)
                        [] pending.caller = "prune" ->
                             PruneAfterConfirm(pending.path, pending.root,
                                               decision, trace)
                        [] pending.caller = "retry" ->
                             RetryAfterConfirm(pending.path, pending.root,
                                               decision, trace, dir_stack)

----------------------------------------------------------------------------
(* The specifications *)

\* the root arguments of the runs on varied file systems: disjoint targets in
\* both orders, one target twice, a missing one, a file given as a root
TargetArgs == {<<T, U>>, <<U, T>>, <<T, T>>, <<Missing, U>>, <<Append(T, NameAX)>>}
\* a read-only tree apart, two inside a target tree, two that overlap
ReadonlyArgs == {<<R>>, <<TS, TSE>>, <<R, RS>>}

InitRun ==
    /\ dirs = SkeletonDirs
    /\ pc = "start"
    /\ catalog = <<>>
    /\ dir_stats = <<>>
    /\ walk = NoWalk("target")
    /\ dir_stack = <<>>
    /\ pending = NoPending
    /\ verdict = "none"
    /\ exit_code = "running"
    /\ trace = <<>>
    /\ files0 = files
    /\ dirs0 = dirs
    /\ result = FALSE
    /\ line = NoLine

NoCall ==
    /\ arg_child = NoPath
    /\ arg_parent = NoPath

\* runs of main on every file system of at most MaxFiles files
Init ==
    /\ files \in FileSystems
    /\ links = <<>>
    /\ targets \in TargetArgs
    /\ readonly \in ReadonlyArgs
    /\ confirm \in BOOLEAN
    /\ remove_empty \in BOOLEAN
    /\ InitRun
    /\ NoCall

Next ==
    \/ Main
    \/ BeginRoot
    \/ VisitDir
    \/ EvalFile
    \/ EndWalk
    \/ PruneBeginRoot
    \/ PruneVisitDir
    \/ PruneEnd
    \/ PruneRetry
    \/ PruneDone
    \/ Answer

Spec == Init /\ [][Next]_vars

\* the roots a command line may name: directories, a missing path, a symbolic
\* link, a path through a symbolic link, a file
ArgCands == {T, TS, R, Missing, L, Append(L, Name("s")), Append(T, NameAX)}

\* one file system, with a duplicate in each tree
ArgsFiles ==
    (Append(T, NameAX) :> <<0, 0>>) @@ (Append(TS, NameCX) :> <<0, 0>>) @@
    (Append(R, NameEX) :> <<0, 0>>)

\* non-interactive runs of main on every choice of at most MaxRoots roots of
\* each kind, with and without symbolic links
InitArgs ==
    /\ files = ArgsFiles
    /\ links \in LinkConfigs
    /\ targets \in SeqsUpTo(ArgCands, MaxRoots) \ {<<>>}
    /\ readonly \in SeqsUpTo(ArgCands, MaxRoots)
    /\ confirm = FALSE
    /\ remove_empty = TRUE
    /\ InitRun
    /\ NoCall

NextArgs ==
    \/ Main
    \/ BeginRoot
    \/ VisitDir
    \/ EvalFile
    \/ EndWalk
    \/ PruneBeginRoot
    \/ PruneVisitDir
    \/ PruneEnd
    \/ PruneRetry
    \/ PruneDone

SpecArgs == InitArgs /\ [][NextArgs]_vars

\* the paths is_same_or_subdir may be given
PathCands ==
    SkeletonDirs \cup {L, Append(L, Name("s")), Append(L, Name("e")), TL,
                       Append(TL, Name("s"))}

\* is_same_or_subdir called on two existing directories
InitPath ==
    /\ files = <<>>
    /\ links \in LinkConfigs
    /\ targets = <<>>
    /\ readonly = <<>>
    /\ confirm = FALSE
    /\ remove_empty = FALSE
    /\ InitRun
    /\ arg_child \in {p \in PathCands : is_dir(p)}
    /\ arg_parent \in {p \in PathCands : is_dir(p)}

CallIsSameOrSubdir ==
    /\ line' = NoLine
    /\ pc = "start"
    /\ result' = is_same_or_subdir(arg_child, arg_parent)
    /\ pc' = "returned"
    /\ UNCHANGED <<dirs, files, links, targets, readonly, confirm, remove_empty,
                   catalog, dir_stats, walk, dir_stack, pending, exit_code, trace,
                   files0, dirs0, arg_child, arg_parent, verdict>>

SpecPath == InitPath /\ [][CallIsSameOrSubdir]_vars

\* the characters of the file names get_extension is called on, and the
\* names: every non-empty string of at most MaxNameLen of them
NameChars == {".", "a", "b", "x"}
FileNames == UNION {[1..n -> NameChars] : n \in 1..MaxNameLen}

\* get_extension called on the name of a file
InitExt ==
    /\ files = <<>>
    /\ links = <<>>
    /\ targets = <<>>
    /\ readonly = <<>>
    /\ confirm = FALSE
    /\ remove_empty = FALSE
    /\ InitRun
    /\ arg_child \in FileNames
    /\ arg_parent = NoPath

CallGetExtension ==
    /\ line' = NoLine
    /\ pc = "start"
    /\ result' = get_extension(arg_child)
    /\ pc' = "returned"
    /\ UNCHANGED <<dirs, files, links, targets, readonly, confirm, remove_empty,
                   catalog, dir_stats, walk, dir_stack, pending, exit_code, trace,
                   files0, dirs0, arg_child, arg_parent, verdict>>

SpecExt == InitExt /\ [][CallGetExtension]_vars

\* target_dirs given as a list of paths, and given as a str: iterating a str
\* yields its characters, each a path relative to the working directory "/"
ListArg(q) == [list |-> TRUE, items |-> q]
StrArg(q) == [list |-> FALSE, items |-> q]

\* the arguments of remove_empty_directories called on its own: a list of
\* one or two trees, a list of a directory that does not exist, a list that
\* names one tree twice, and the strings 't', 'm' and 'tu'
PruneArgs == {ListArg(<<T>>), ListArg(<<T, U>>), ListArg(<<Missing>>),
              ListArg(<<T, T>>),
              StrArg(<<T>>), StrArg(<<Missing>>), StrArg(<<T, U>>)}

\* the mutant of IsList that lets any argument through
IsListUnchecked(target_dirs) == TRUE

\* isinstance(target_dirs, list)
IsList(target_dirs) == target_dirs.list

\* remove_empty_directories(target_dirs, DedupStats(), confirm) on every file
\* system of at most MaxFiles files
InitPrune ==
    /\ files \in FileSystems
    /\ links = <<>>
    /\ arg_child \in PruneArgs
    /\ targets = arg_child.items
    /\ readonly = <<>>
    /\ confirm \in BOOLEAN
    /\ remove_empty = TRUE
    /\ dirs = SkeletonDirs
    /\ pc = "call"
    /\ catalog = <<>>
    /\ dir_stats = <<>>
    /\ walk = NoWalk("prune")
    /\ dir_stack = <<>>
    /\ pending = NoPending
    /\ verdict = "none"
    /\ exit_code = "running"
    /\ trace = <<>>
    /\ files0 = files
    /\ dirs0 = dirs
    /\ arg_parent = NoPath
    /\ result = FALSE
    /\ line = NoLine

\* if not isinstance(target_dirs, list): raise RuntimeError(...)
CallRemoveEmptyDirectories ==
    /\ line' = NoLine
    /\ pc = "call"
    /\ IF IsList(arg_child)
       THEN /\ pc' = "prune"
            /\ UNCHANGED <<dirs, files, links, targets, readonly, confirm,
                           remove_empty, catalog, dir_stats, walk, dir_stack,
                           pending, exit_code, trace, files0, dirs0, arg_child,
                           arg_parent, result, verdict>>
       ELSE Crash

NextPrune ==
    \/ CallRemoveEmptyDirectories
    \/ PruneBeginRoot
    \/ PruneVisitDir
    \/ PruneEnd
    \/ PruneRetry
    \/ PruneDone
    \/ Answer

SpecPrune == InitPrune /\ [][NextPrune]_vars

\* a line remove_with_confirm accepts: its while loop ends
AcceptedAnswer == Answer /\ pc' # "prompt"

\* the runs of Spec in which the interpreter keeps executing the statement it
\* is at, and the user, asked again and again, ends up typing an accepted line
\* runs of main with pruning requested, on every file system of at most
\* MaxFiles files: two target trees and two read-only trees that overlap, and
\* one target given twice
InitLive ==
    /\ files \in FileSystems
    /\ links = <<>>
    /\ targets \in {<<T, U>>, <<T, T>>}
    /\ readonly = <<R, RS>>
    /\ confirm \in BOOLEAN
    /\ remove_empty = TRUE
    /\ InitRun
    /\ NoCall

\* the runs in which the interpreter keeps executing the statement it is at,
\* and the user, asked again and again, ends up typing an accepted line
SpecLive ==
    InitLive /\ [][Next]_vars /\ WF_vars(NextArgs) /\ WF_vars(AcceptedAnswer)

\* a second file of the read-only directory r
NameGX == <<"g", ".", "x">>

\* the places of the files of an interactive run in which a directory is
\* skipped: those of FileSlots and a second file in r, so that a walked
\* read-only directory can have files left when the user answers skip
SkipSlots == FileSlots \cup {Append(R, NameGX)}

\* the file systems such a run may start on, one of each pair that differs by
\* exchanging the two contents
SkipFileSystems ==
    {fs \in UNION {[S -> Contents] :
                     S \in {X \in SUBSET SkipSlots : Cardinality(X) <= MaxFiles}} :
        Cardinality(Holding(fs, <<0, 0>>)) >= Cardinality(Holding(fs, <<0, 1>>))}

\* run_dedup(target_dirs, read_only_dirs, confirm=True): an interactive run
\* without pruning, its read-only roots outside the target roots
InitSkip ==
    /\ files \in SkipFileSystems
    /\ links = <<>>
    /\ targets \in {<<T, U>>, <<U, T>>}
    /\ readonly \in {<<R>>, <<R, RS>>}
    /\ confirm = TRUE
    /\ remove_empty = FALSE
    /\ InitRun
    /\ NoCall

\* the steps of a run that does not prune
NextSkip ==
    \/ Main
    \/ BeginRoot
    \/ VisitDir
    \/ EvalFile
    \/ EndWalk
    \/ Answer

SpecSkip == InitSkip /\ [][NextSkip]_vars


----------------------------------------------------------------------------
(* What the claims speak of *)

\* p is d or lies below d, by the names of the path
AtOrUnder(p, d) == Len(p) >= Len(d) /\ SubSeq(p, 1, Len(d)) = d

Range(q) == {q[i] : i \in 1..Len(q)}

UnderTarget(p) == \E d \in Range(targets) : AtOrUnder(p, d)
UnderReadonly(p) == \E d \in Range(readonly) : AtOrUnder(p, d)

\* the positions of the history where ev happened
Events(ev) == {i \in 1..Len(trace) : trace[i].ev = ev}

\* the roots passed check_dir_args
Validated == verdict = "ok"

\* the target walk has just completed: walk_dirs is entered for the read-only roots
TargetWalkDone ==
    pc = "walk" /\ walk.phase = "readonly" /\ walk.di = 0 /\ walk.stack = <<>>

\* a complete non-interactive run
DoneNonInteractive == pc = "done" /\ ~confirm

\* two files that exist hold the same bytes
SameContent(f, g) == files[f] = files[g]

SameExtension(f, g) == get_extension(Last(f)) = get_extension(Last(g))

----------------------------------------------------------------------------
(* C1: read-only immutability *)

\* C1: in a run whose roots passed check_dir_args, every file and directory
\* that was under a read-only root at the start is there in every state, the
\* files with the content they had.
C1_ReadOnlyUntouched ==
    Validated =>
        /\ \A f \in DOMAIN files0 :
              UnderReadonly(f) => f \in DOMAIN files /\ files[f] = files0[f]
        /\ \A d \in dirs0 : UnderReadonly(d) => d \in dirs

----------------------------------------------------------------------------
(* C2: deduplication completeness *)

\* C2 as stated: after a complete non-interactive run no file left under a
\* target root has the bytes of another file left under a target root or of a
\* file under a read-only root.
C2_NoIdenticalLeft ==
    DoneNonInteractive =>
        \A f, g \in DOMAIN files :
            (f # g /\ UnderTarget(f) /\ (UnderTarget(g) \/ UnderReadonly(g)))
                => ~SameContent(f, g)

\* C2 as amended: the same for two files with the same extension.
C2_NoIdenticalLeftInBucket ==
    DoneNonInteractive =>
        \A f, g \in DOMAIN files :
            (f # g /\ UnderTarget(f) /\ (UnderTarget(g) \/ UnderReadonly(g))
                /\ SameExtension(f, g))
                => ~SameContent(f, g)

\* a non-interactive run has removed a duplicate and left two target files of
\* the same bytes whose extensions differ
C2_Witness ==
    /\ DoneNonInteractive
    /\ Events("rm") # {}
    /\ \E f, g \in DOMAIN files :
          /\ f # g /\ UnderTarget(f) /\ UnderTarget(g)
          /\ SameContent(f, g) /\ ~SameExtension(f, g)

----------------------------------------------------------------------------
(* C3: uniqueness of the catalog after the target walk *)

\* C3 as stated: when the target walk completes, no two rows of the catalog
\* are files of the same bytes.
C3_CatalogUnique ==
    TargetWalkDone =>
        \A i, j \in 1..Len(catalog) :
            i # j => files0[catalog[i].full_path] # files0[catalog[j].full_path]

\* C3 as amended: when the target walk completes, no two rows of the catalog
\* with the same extension are files of the same bytes.
C3_CatalogUniqueInBucket ==
    TargetWalkDone =>
        \A i, j \in 1..Len(catalog) :
            (i # j /\ catalog[i].extension = catalog[j].extension)
                => files0[catalog[i].full_path] # files0[catalog[j].full_path]

\* the target walk completed with two rows of the same bytes and different
\* extensions in the catalog, after a duplicate was found
C3_Witness ==
    /\ TargetWalkDone
    /\ Events("ask") # {}
    /\ \E i, j \in 1..Len(catalog) :
          /\ i # j
          /\ catalog[i].extension # catalog[j].extension
          /\ files0[catalog[i].full_path] = files0[catalog[j].full_path]

----------------------------------------------------------------------------
(* C4: no false deletion *)

\* C4: every file walk_dirs passed to deletion was found to hold the bytes of
\* another file; a target file that differs from every row of its bucket is
\* inserted, and is passed to deletion by no target walk.
C4_OnlyDuplicatesDeleted ==
    /\ \A i \in Events("ask") :
          trace[i].phase \in {"target", "readonly"} =>
              /\ trace[i].path # trace[i].other
              /\ files0[trace[i].path] = files0[trace[i].other]
    /\ \A i \in Events("eval") :
          (trace[i].phase = "target"
             /\ \A j \in Events("eval") :
                   (j < i /\ trace[j].phase = "target"
                      /\ SameExtension(trace[i].path, trace[j].path))
                     => files0[trace[j].path] # files0[trace[i].path])
            => \A k \in Events("ask") :
                   trace[k].phase = "target" => trace[k].path # trace[i].path

----------------------------------------------------------------------------
(* C5: no double delete *)

\* C5: no path is passed to remove_with_confirm twice in a run.
C5_NoDoubleDelete ==
    \A i, j \in Events("ask") : trace[i].path = trace[j].path => i = j

\* a run passed a file to remove_with_confirm in each walk and a directory in
\* each pass of the pruner
C5_Witness ==
    /\ \E i \in Events("ask") : trace[i].phase = "target"
    /\ \E i \in Events("ask") : trace[i].phase = "readonly"
    /\ \E i \in Events("ask") : trace[i].phase = "prune"
    /\ \E i \in Events("ask") : trace[i].phase = "retry"

----------------------------------------------------------------------------
(* C6: skip containment *)

\* the directory os.walk stood in when event n was recorded
Position(n) ==
    LET seen == {m \in 1..n : trace[m].ev \in {"visit", "skipped"}}
    IN  trace[CHOOSE m \in seen : \A k \in seen : k <= m].path

\* event j evaluates a file of d, or a file or a directory below d
EvaluatesWithin(j, d) ==
    \/ trace[j].ev \in {"eval", "ask"} /\ AtOrUnder(trace[j].path, d)
    \/ /\ trace[j].ev = "visit"
       /\ AtOrUnder(trace[j].path, d) /\ trace[j].path # d

\* C6: after a skip signal for directory D in a walk, that walk evaluates no
\* further file of D and no file or directory below D before the walker has
\* stood in a directory that is neither D nor below D.
C6_SkipContainment ==
    \A i \in Events("skip") :
        \A j \in (i + 1)..Len(trace) :
            (trace[j].phase = trace[i].phase /\ EvaluatesWithin(j, trace[i].path))
                => \E n \in i..(j - 1) : ~AtOrUnder(Position(n), trace[i].path)

----------------------------------------------------------------------------
(* C7: overlap rejection *)

\* the directory that ".." names in the directory of inode n
ParentInode(n) ==
    CASE n = 11 -> 2
      [] n = 12 -> 11
      [] n = 13 -> 12
      [] n = 21 -> 2
      [] n = 31 -> 2
      [] n = 32 -> 31
      [] OTHER -> 2

\* the directory of inode n and the directories above it
RECURSIVE UpChain(_)
UpChain(n) == IF n = 2 THEN {2} ELSE {n} \cup UpChain(ParentInode(n))

\* p names a directory of the file system the run started with
IsDir0(p) == Resolve(p) \in dirs0

\* directory a is directory b or lies inside it, by the file system
SameOrInside(a, b) ==
    IsDir0(a) /\ IsDir0(b) /\ Inode(Resolve(b)) \in UpChain(Inode(Resolve(a)))

\* some target root is, or lies inside, another target root or a read-only root
RootsOverlap ==
    \/ \E i, j \in 1..Len(targets) : i # j /\ SameOrInside(targets[i], targets[j])
    \/ \E i \in 1..Len(targets) : \E j \in 1..Len(readonly) :
          SameOrInside(targets[i], readonly[j])

\* C7: when a target root is the same directory as, or inside, another target
\* root or a read-only root, the run ends in check_dir_args with failure
\* status, whatever the order of the lists.
C7_OverlapRejected ==
    (pc # "start" /\ RootsOverlap) => (pc = "exited" /\ exit_code = "failure")

\* a run was rejected whose roots are all real directories, one target reached
\* through a symbolic link lying inside a read-only root
C7_Witness ==
    /\ pc = "exited" /\ verdict = "overlap_readonly"
    /\ \E i \in 1..Len(targets) : \E j \in 1..Len(readonly) :
          /\ targets[i][1] = L[1]
          /\ SameOrInside(targets[i], readonly[j])
          /\ ~samefile(targets[i], readonly[j])

----------------------------------------------------------------------------
(* C8: a rejected configuration leaves everything as it was *)

\* C8: when check_dir_args rejects the roots the process has exited with
\* failure status, the files and directories are those of the start, the
\* catalog is empty, no statistics exist and nothing was scanned.
C8_RejectedUntouched ==
    verdict \notin {"none", "ok"} =>
        /\ pc = "exited" /\ exit_code = "failure"
        /\ files = files0 /\ dirs = dirs0
        /\ catalog = <<>> /\ dir_stats = <<>> /\ trace = <<>>

\* a run was rejected for a root that is a symbolic link
C8_Witness == pc = "exited" /\ verdict = "symlink" /\ files # <<>>

----------------------------------------------------------------------------
(* C9: is_same_or_subdir *)

\* C9: for two existing directories is_same_or_subdir returns true exactly
\* when the first is the second or lies inside it at any depth.
C9_IsSameOrSubdir ==
    pc = "returned" => (result <=> SameOrInside(arg_child, arg_parent))

\* the call returned true for a grandchild reached through a symbolic link
C9_Witness ==
    /\ pc = "returned" /\ result
    /\ Len(arg_child) > 0 /\ arg_child[1] = L[1]
    /\ ParentInode(ParentInode(Inode(Resolve(arg_child)))) = Inode(Resolve(arg_parent))
    /\ ParentInode(Inode(Resolve(arg_child))) # Inode(Resolve(arg_parent))

----------------------------------------------------------------------------
(* C10: the file seen first is kept in the target phase *)

\* the duplicates the target walk has found while walking root d
DupsFoundIn(d) ==
    {k \in Events("ask") : /\ trace[k].phase = "target"
                           /\ trace[k - 1].ev = "eval"
                           /\ trace[k - 1].other = d}

RECURSIVE SizeOfAll(_)
SizeOfAll(S) ==
    IF S = {} THEN 0
    ELSE LET k == CHOOSE x \in S : TRUE
         IN  Len(files0[trace[k].path]) + SizeOfAll(S \ {k})

\* the target files evaluated so far that were not found to be duplicates
KeptSoFar ==
    {trace[i].path : i \in {e \in Events("eval") : trace[e].phase = "target"}}
        \ {trace[k].path : k \in {a \in Events("ask") : trace[a].phase = "target"}}

----------------------------------------------------------------------------
(* C11: a match in the read-only walk deletes the target file *)

\* the calls of remove_with_confirm made by the walk of the given phase
AsksOf(phase) == {k \in Events("ask") : trace[k].phase = phase}

\* the call recorded at k has returned: it is not the one waiting at the
\* prompt, nor the one that ended the process
Returned(k) == pc \notin {"prompt", "exited"} \/ \E j \in Events("ask") : j > k

\* C11: when a file of the read-only walk matches a row, the file passed to
\* deletion is the row's file, which lies under a target root, is not the
\* read-only file and is under no read-only root; the row is deleted once
\* remove_with_confirm returned, and no later read-only file of the same
\* extension and bytes finds a match.
C11_ReadonlyMatchDeletesTarget ==
    \A k \in AsksOf("readonly") :
        /\ trace[k].path # trace[k].other
        /\ UnderTarget(trace[k].path) /\ ~UnderReadonly(trace[k].path)
        /\ Returned(k) =>
              \A r \in 1..Len(catalog) : catalog[r].full_path # trace[k].path
        /\ \A j \in AsksOf("readonly") :
              (j > k /\ SameExtension(trace[j].other, trace[k].other))
                  => files0[trace[j].other] # files0[trace[k].other]

----------------------------------------------------------------------------
(* C12: attribution of the duplicate counters *)

\* the bytes of the files the calls in S were made on
RECURSIVE SizeOfPaths(_)
SizeOfPaths(S) ==
    IF S = {} THEN 0
    ELSE LET k == CHOOSE x \in S : TRUE
         IN  Len(files0[trace[k].path]) + SizeOfPaths(S \ {k})

\* the calls of remove_with_confirm the two walks made on files under root d
DupsUnder(d) ==
    {k \in AsksOf("target") \cup AsksOf("readonly") : AtOrUnder(trace[k].path, d)}

\* C12: in every state each target root's dup_file_count and dup_file_size are
\* the number and the size of the files under it that were passed to deletion,
\* and the duplicate counters of every read-only root are 0.
C12_DupCountersOwned ==
    \A d \in DOMAIN dir_stats :
        IF d \in Range(targets)
        THEN /\ dir_stats[d].dup_file_count = Cardinality(DupsUnder(d))
             /\ dir_stats[d].dup_file_size = SizeOfPaths(DupsUnder(d))
        ELSE /\ dir_stats[d].dup_file_count = 0
             /\ dir_stats[d].dup_file_size = 0

----------------------------------------------------------------------------
(* C13: the keys of dir_stats *)

Roots == Range(targets) \cup Range(readonly)

\* C13: no path other than a root argument is ever a key of stats.dir_stats,
\* and when deduplicate has returned the keys are the target roots and the
\* read-only roots, all of them.
C13_StatsKeysAreRoots ==
    /\ DOMAIN dir_stats \subseteq Roots
    /\ pc = "done" => DOMAIN dir_stats = Roots

\* a run is complete in which the read-only walk looked up the root of a
\* target file lying in a subdirectory and the pruner removed a directory
C13_Witness ==
    /\ pc = "done"
    /\ \E k \in AsksOf("readonly") : \E d \in Range(targets) :
          AtOrUnder(trace[k].path, d) /\ Front(trace[k].path) # d
    /\ \E k \in Events("rm") : trace[k].phase \in {"prune", "retry"}

----------------------------------------------------------------------------
(* C14: a path is in the catalog at most once *)

\* C14: in every state of a run whose roots passed check_dir_args no two rows
\* of the catalog hold the same path.
C14_PathOncePerCatalog ==
    Validated =>
        \A i, j \in 1..Len(catalog) :
            catalog[i].full_path = catalog[j].full_path => i = j

\* the catalog holds rows of both target roots, two of them files of one
\* directory
C14_Witness ==
    /\ Validated
    /\ \E i, j, k \in 1..Len(catalog) :
          /\ i # j
          /\ Front(catalog[i].full_path) = Front(catalog[j].full_path)
          /\ AtOrUnder(catalog[i].full_path, targets[1])
          /\ AtOrUnder(catalog[k].full_path, targets[2])

----------------------------------------------------------------------------
(* C15..C18: the answers at the prompt of remove_with_confirm *)

\* the step just taken read a line at the prompt
Answered == line # NoLine

\* the first character of the line read, in lower case
Began(c) == Answered /\ FirstLower(line) = <<c>>

\* the last call of remove_with_confirm and the file or directory it was for
LastAsk == CHOOSE k \in Events("ask") : \A j \in Events("ask") : j <= k
Item == trace[LastAsk].path
ItemIsDir == trace[LastAsk].phase \in {"prune", "retry"}

Gone(p) == p \notin DOMAIN files /\ p \notin dirs

\* os.rmdir can remove the directory: nothing is in it
Removable(k) ==
    trace[k].phase \in {"target", "readonly"} \/ IsEmptyDir(trace[k].path)

\* the call recorded at k removed what it was given
RemovedAt(k) ==
    /\ k < Len(trace)
    /\ trace[k + 1].ev = "rm" /\ trace[k + 1].path = trace[k].path
    /\ Gone(trace[k].path)

\* C15: without confirmation remove_with_confirm never prompts, removes the
\* file or empty directory it is given and returns no skip signal; with
\* confirmation a line beginning with y or n, in either case, is accepted, the
\* file or empty directory is removed exactly when the line begins with y, and
\* after n it is in place and no skip signal is returned.
C15_RemovesIffYes ==
    /\ ~confirm =>
          /\ pc # "prompt" /\ ~Answered
          /\ Events("skip") = {} /\ walk.skip = NoPath
          /\ \A k \in Events("ask") : Removable(k) => RemovedAt(k)
    /\ (Began("y") \/ Began("n")) => pc # "prompt"
    /\ (Answered /\ Removable(LastAsk)) => (Gone(Item) <=> Began("y"))
    /\ Began("n") =>
          /\ ~Gone(Item)
          /\ walk.skip = NoPath /\ trace[Len(trace)].ev # "skip"

\* the line Yes was typed for a file and for an empty directory, and each is
\* gone
C15_Witness ==
    /\ line = <<"Y", "e", "s">> /\ ItemIsDir /\ Gone(Item)
    /\ \E k \in AsksOf("target") : RemovedAt(k)

\* C16: a line beginning with s typed for a file leaves the file in place and
\* returns the file's directory as the skip signal; typed for a directory it
\* is refused and the prompt is repeated with nothing changed.
C16_SkipIsForFiles ==
    Began("s") =>
        IF ItemIsDir
        THEN /\ pc = "prompt" /\ pending.path = Item
             /\ ~Gone(Item)
             /\ trace[Len(trace)].ev = "ask"
        ELSE /\ pc = "walk"
             /\ ~Gone(Item)
             /\ walk.skip = Front(Item)
             /\ trace[Len(trace)] =
                    Event("skip", Front(Item), Item, trace[LastAsk].phase)

\* the line Skip was refused for a directory in a run that had skipped the
\* rest of a directory of files
C16_Witness ==
    /\ Began("s") /\ ItemIsDir /\ pc = "prompt"
    /\ Events("skip") # {}

\* C17: a line that begins with none of y, n, q, or s for a file, the empty
\* line among them, is refused: the prompt is repeated and nothing is decided.
C17_NoDefaultAnswer ==
    (/\ Answered
     /\ ~Began("y") /\ ~Began("n") /\ ~Began("q")
     /\ ~(Began("s") /\ ~ItemIsDir))
        => pc = "prompt" /\ pending.path = Item

\* C18: a line beginning with q ends the process at once with success status,
\* what was asked about is in place and the call is the last thing the run
\* did; an ended process takes no further step.
C18_QuitInvariant ==
    /\ Began("q") =>
          /\ pc = "exited" /\ exit_code = "success"
          /\ ~Gone(Item)
          /\ trace[Len(trace)].ev = "ask"
    /\ (pc = "exited" /\ verdict = "ok") => Began("q")

C18_QuitIsImmediate == []C18_QuitInvariant /\ [][pc # "exited"]_vars

\* q was typed at the pruner's prompt and the process has ended
C18_Witness ==
    /\ Began("q") /\ pc = "exited" /\ ItemIsDir
    /\ \E k \in AsksOf("target") : TRUE

----------------------------------------------------------------------------
(* C19, C20: remove_empty_directories *)

\* no file exists at or below directory d
Fileless(d) == \A f \in DOMAIN files : ~AtOrUnder(f, d)

\* the directories the run started with, at or below root t, that hold no
\* file when the pruner runs (the pruner changes no file)
FilelessUnder(t) == {d \in dirs0 : AtOrUnder(d, t) /\ Fileless(d)}

\* a complete non-interactive run with the pruning pass
PrunedNonInteractive == pc = "done" /\ ~confirm /\ remove_empty

\* C19: after a non-interactive pruning pass every directory at or below a
\* target root with no file in its subtree is gone, and empty_dir_count of
\* each target root is the number of them below it.
C19_PruningComplete ==
    PrunedNonInteractive =>
        \A t \in Range(targets) :
            /\ \A d \in FilelessUnder(t) : d \notin dirs
            /\ dir_stats[t].empty_dir_count = Cardinality(FilelessUnder(t))

\* a pruning pass removed a target root with the chain of directories in it,
\* which held nothing but a duplicate, and left the other root
C19_Witness ==
    /\ PrunedNonInteractive
    /\ \E t \in Range(targets) :
          /\ t \notin dirs
          /\ dir_stats[t].empty_dir_count = 3
          /\ dir_stats[t].dup_file_count = 1
    /\ \E t \in Range(targets) : t \in dirs

\* the files removed so far, all by the two walks
RemovedFiles ==
    {trace[k].path : k \in {e \in Events("rm") :
                              trace[e].phase \in {"target", "readonly"}}}

\* C20: the pruner removes no file, and every directory it removes is at or
\* below a target root and has no file in its subtree.
C20_PrunerFrame ==
    /\ DOMAIN files = DOMAIN files0 \ RemovedFiles
    /\ \A k \in Events("rm") :
          trace[k].phase \in {"prune", "retry"} =>
              /\ trace[k].path \in dirs0 /\ trace[k].path \notin dirs
              /\ UnderTarget(trace[k].path)
              /\ Fileless(trace[k].path)
    /\ dirs = dirs0 \ {trace[k].path : k \in Events("rm")}

\* the pruner has finished: it removed an empty directory in the first pass
\* and in the second was refused a target root that holds a file in a
\* subdirectory
C20_Witness ==
    /\ pc = "done"
    /\ \E k \in Events("rm") : trace[k].phase = "prune"
    /\ \E k \in AsksOf("retry") :
          /\ trace[k].path \in Range(targets) /\ trace[k].path \in dirs
          /\ ListFiles(trace[k].path) = {}
          /\ ~Fileless(trace[k].path)

----------------------------------------------------------------------------
(* C21: termination *)

\* the process has ended: main returned, sys.exit was called or an exception
\* was left uncaught
Terminated == pc \in {"done", "exited", "crashed"}

\* the directory d was reached by os.walk in the given walk, evaluated or skipped
Walked(d, phase) ==
    \E k \in Events("visit") \cup Events("skipped") :
        trace[k].path = d /\ trace[k].phase = phase

\* the positions of the retries of the pruner
Retries == {k \in Events("ask") : trace[k].phase = "retry"}

\* when a walk is over every directory under each of its roots was reached;
\* no directory is twice in dir_stack or in it after its retry
C21_WalksAndStack ==
    Validated =>
        /\ (walk.phase # "target" \/ pc = "done") =>
               \A d \in dirs0 : UnderTarget(d) => Walked(d, "target")
        /\ (walk.phase = "prune" \/ pc = "done") =>
               \A d \in dirs0 : UnderReadonly(d) => Walked(d, "readonly")
        /\ \A i, j \in DOMAIN dir_stack :
               dir_stack[i][1] = dir_stack[j][1] => i = j
        /\ \A i \in DOMAIN dir_stack, k \in Retries :
               trace[k].path # dir_stack[i][1]
        /\ \A k, n \in Retries : trace[k].path = trace[n].path => k = n
        /\ pc = "done" => dir_stack = <<>>

\* the second pass only ever takes the last entry off dir_stack, asking about
\* it, and puts nothing on it
C21_RetryStep ==
    (pc = "retry" \/ (pc = "prompt" /\ pending.caller = "retry")) =>
        \/ dir_stack' = dir_stack
        \/ /\ pc = "retry"
           /\ dir_stack' = Front(dir_stack)
           /\ trace'[Len(trace) + 1] =
                  Event("ask", Last(dir_stack)[1], Last(dir_stack)[2], "retry")

\* C21: every run in which each prompt ends up with an accepted line
\* terminates; each walk that completed reached every directory under each
\* of its roots; the pruner retries each stacked directory once and never
\* queues it again.
C21_Termination ==
    /\ <>Terminated
    /\ []C21_WalksAndStack
    /\ [][C21_RetryStep]_vars

\* an interactive run ended after a skip answer and a retry that left its
\* directory in place
C21_Witness ==
    /\ pc = "done" /\ confirm
    /\ Events("skip") # {}
    /\ \E k \in Retries : trace[k].path \in dirs

----------------------------------------------------------------------------
(* C22: pruning is optional *)

\* the positions where the pruner removed a directory
PrunerRemovals == {k \in Events("rm") : trace[k].phase \in {"prune", "retry"}}

\* directory d holds no file and no directory when the walks are over (the
\* walks remove no directory, the pruner no file)
EmptyAfterWalks(d) ==
    /\ \A f \in DOMAIN files : Front(f) # d
    /\ \A c \in dirs0 : c = <<>> \/ Front(c) # d

\* a duplicate was deleted from directory d, which holds nothing any more
LeftEmpty(d) ==
    /\ d \in dirs /\ IsEmptyDir(d)
    /\ \E f \in DOMAIN files0 \ DOMAIN files : Front(f) = d

----------------------------------------------------------------------------
(* C23: empty_dir_count *)

\* the directories under target root t that the pruner removed
RemovedUnder(t) == {trace[k].path : k \in {n \in PrunerRemovals : trace[n].other = t}}

\* C23: when the pruner has returned, empty_dir_count of each target root is
\* the number of directories under that root the pruner removed: one
\* increment for each removal, none for a directory still in place.
C23_CountIsRemovals ==
    (pc = "done" /\ remove_empty) =>
        \A t \in Range(targets) :
            dir_stats[t].empty_dir_count = Cardinality(RemovedUnder(t))

----------------------------------------------------------------------------
(* C24: the argument of remove_empty_directories *)

\* C24: remove_empty_directories given a target_dirs that is not a list ends
\* in an uncaught RuntimeError having removed nothing, walked nothing and
\* added no entry to stats.dir_stats.
C24_NonListRefused ==
    arg_child \in {StrArg(<<T>>), StrArg(<<Missing>>), StrArg(<<T, U>>)} =>
        /\ pc \in {"call", "crashed"}
        /\ pc = "crashed" => exit_code = "exception"
        /\ dirs = dirs0 /\ files = files0
        /\ dir_stats = <<>>
        /\ walk = NoWalk("prune") /\ dir_stack = <<>>
        /\ trace = <<>>

\* the call with the string 't' has raised, where t holds an empty directory
C24_Witness ==
    /\ arg_child = StrArg(<<T>>) /\ pc = "crashed"
    /\ IsEmptyDir(TSE)

----------------------------------------------------------------------------
(* C25: get_extension *)

\* the positions of the dots of a name
Dots(name) == {i \in 1..Len(name) : name[i] = "."}

\* all characters from the rightmost dot to the end of the name
FromRightmostDot(name) ==
    LET d == CHOOSE i \in Dots(name) : \A j \in Dots(name) : j <= i
    IN  SubSeq(name, d, Len(name))

\* C25: get_extension returns the empty string for a name without a dot, the
\* whole name for a name that starts with its only dot, and otherwise the
\* characters from the rightmost dot to the end of the name.
C25_FromRightmostDot ==
    pc = "returned" =>
        result = IF Dots(arg_child) = {} THEN <<>>
                 ELSE IF Dots(arg_child) = {1} THEN arg_child
                 ELSE FromRightmostDot(arg_child)

----------------------------------------------------------------------------
(* C26: re-scans *)

\* the positions where os.walk reached a directory, evaluated or skipped
Reached == Events("visit") \cup Events("skipped")

\* the positions where the walk of one given root began: os.walk(d) yields d
RootStarts == {k \in Events("visit") : trace[k].path = trace[k].other}

\* the events at i and j are about the same path in the same walk_dirs call
SamePathSamePhase(i, j) ==
    trace[i].path = trace[j].path /\ trace[i].phase = trace[j].phase

----------------------------------------------------------------------------
(* C27: the order of the phases *)

\* the place of a phase in deduplicate: the walk of the target roots, the
\* walk of the read-only roots, the two passes of the pruner
Rank(phase) ==
    CASE phase = "target" -> 1
      [] phase = "readonly" -> 2
      [] phase = "prune" -> 3
      [] phase = "retry" -> 4

\* what was done so far was done phase after phase: the files the target
\* walk evaluated are under target roots, those the read-only walk evaluated
\* under read-only roots, and nothing of a later phase precedes anything of
\* an earlier one
C27_PhasesInOrder ==
    /\ \A i, j \in DOMAIN trace :
           i < j => Rank(trace[i].phase) <= Rank(trace[j].phase)
    /\ \A k \in Events("eval") :
           /\ trace[k].phase \in {"target", "readonly"}
           /\ trace[k].phase = "target" => UnderTarget(trace[k].path)
           /\ trace[k].phase = "readonly" => UnderReadonly(trace[k].path)
    /\ \A k \in DOMAIN trace :
           Rank(trace[k].phase) <= Rank(walk.phase) + (IF pc = "walk" THEN 0 ELSE 1)
    /\ PrunerRemovals # {} => (walk.phase = "prune" /\ pc # "walk")

\* the File table grows only in a step of the target walk and shrinks only
\* in a step of the read-only walk
C27_CatalogStep ==
    /\ Len(catalog') > Len(catalog) => (walk.phase = "target" /\ pc = "walk")
    /\ Len(catalog') < Len(catalog) =>
           (walk.phase = "readonly" /\ pc \in {"walk", "prompt"})

\* the phases by walk: every evaluation made by the walk of the target roots
\* precedes every evaluation made by the walk of the read-only roots, every
\* removal by the pruner follows the end of that walk, and the catalog
\* receives rows only in the target walk and loses rows only in the
\* read-only walk
PhasesOrderedByWalk == []C27_PhasesInOrder /\ [][C27_CatalogStep]_vars

\* C27: the phases are strictly ordered: in a run whose roots passed
\* check_dir_args every evaluation of a file under a target root precedes
\* every evaluation of a file under a read-only root, every removal by the
\* pruner comes after the last evaluation, and rows are in the catalog only
\* once the target walk has evaluated a file.
C27_PhasesOrdered ==
    Validated =>
        /\ \A i, j \in Events("eval") :
               (UnderTarget(trace[i].path) /\ UnderReadonly(trace[j].path)) => i < j
        /\ \A k \in PrunerRemovals : \A i \in Events("eval") : i < k
        /\ catalog # <<>> => \E i \in Events("eval") : trace[i].phase = "target"

----------------------------------------------------------------------------
(* C28: skip in the walk of the read-only roots *)

\* the skip answers given in the walk of the read-only roots
ReadonlySkips == {k \in Events("skip") : trace[k].phase = "readonly"}

\* the read-only directory that was being walked when the match that led to
\* the skip at k was found: the directory of the file evaluated
WalkedAt(k) == Front(trace[k - 2].path)

\* C28: after the skip answer to a match found in the walk of a read-only
\* root, no file of the read-only directory being walked is evaluated and no
\* directory under it is visited until os.walk has reached a directory
\* outside it.
C28_SkipScopedToWalkedDir ==
    \A k \in ReadonlySkips :
        \A j \in (k + 1)..Len(trace) :
            (/\ trace[j].ev \in {"eval", "visit"}
             /\ AtOrUnder(trace[j].path, WalkedAt(k))
             /\ trace[j].path # WalkedAt(k)) =>
                \E n \in (k + 1)..(j - 1) :
                    /\ trace[n].ev \in {"visit", "skipped"}
                    /\ ~AtOrUnder(trace[n].path, WalkedAt(k))

----------------------------------------------------------------------------
(* C29: the life of a row of the File table *)

\* the paths of the rows of the File table
CatalogPaths == {catalog[i].full_path : i \in DOMAIN catalog}

\* the target files whose row the read-only walk passed to
\* remove_with_confirm, the call having returned
MatchedByReadonly == {trace[k].path : k \in {a \in AsksOf("readonly") : Returned(a)}}

\* the target files the read-only walk deleted
DeletedByReadonly ==
    {trace[k].path : k \in {e \in Events("rm") : trace[e].phase = "readonly"}}

\* the original statement of C29: a row leaves the catalog only when the
\* file it stands for has been deleted because a read-only file is identical;
\* when the deletion was not carried out it stays.
C29_RowLeavesOnlyIfDeleted ==
    Validated =>
        /\ CatalogPaths \subseteq KeptSoFar
        /\ \A p \in KeptSoFar \ CatalogPaths :
               p \in DeletedByReadonly /\ p \notin DOMAIN files

\* C29: a row is in the catalog from the evaluation of a target file that
\* matched no row until a read-only file is found to hold its bytes and
\* remove_with_confirm has returned for it, whether the file was deleted or
\* the user declined; no other row is ever inserted or removed.
C29_RowLeavesOnReadonlyMatch ==
    Validated =>
        /\ CatalogPaths = KeptSoFar \ MatchedByReadonly
        /\ DeletedByReadonly \subseteq MatchedByReadonly
        /\ \A i, j \in DOMAIN catalog :
               catalog[i].full_path = catalog[j].full_path => i = j

\* the user declined the deletion of a target file that a read-only file
\* matched: the file is on disk and its row is gone
C29_Witness ==
    /\ pc = "done" /\ readonly = <<R>>
    /\ \E p \in MatchedByReadonly : p \in DOMAIN files /\ p \notin CatalogPaths
    /\ catalog # <<>>

----------------------------------------------------------------------------
(* C30: the read-only walk and the catalog *)

\* the step evaluated one file and found no match: the evaluation is all it
\* added to the history
EvaluatedUnmatched ==
    /\ Len(trace') = Len(trace) + 1
    /\ trace'[Len(trace')].ev = "eval"

\* a step of the walk of the read-only roots adds no row, and the evaluation
\* of a file without a match changes no row, no file, no directory and no
\* duplicate counter
C30_ReadonlyStep ==
    (walk.phase = "readonly" /\ pc \in {"walk", "prompt"}) =>
        /\ Len(catalog') <= Len(catalog)
        /\ EvaluatedUnmatched =>
               /\ catalog' = catalog
               /\ files' = files /\ dirs' = dirs
               /\ DOMAIN dir_stats' = DOMAIN dir_stats
               /\ \A d \in DOMAIN dir_stats :
                      /\ dir_stats'[d].dup_file_count = dir_stats[d].dup_file_count
                      /\ dir_stats'[d].dup_file_size = dir_stats[d].dup_file_size

\* C30: the walk of the read-only roots never inserts into the catalog: a
\* read-only file without a match causes no insertion, no deletion and no
\* change of a duplicate counter, and the number of rows never grows during
\* that walk.
C30_ReadonlyNeverInserts == [][C30_ReadonlyStep]_vars

\* the read-only walk has just evaluated a file that matched none of the
\* rows of the catalog
C30_Witness ==
    /\ pc = "walk" /\ walk.phase = "readonly"
    /\ catalog # <<>>
    /\ trace # <<>>
    /\ trace[Len(trace)].ev = "eval" /\ trace[Len(trace)].phase = "readonly"

----------------------------------------------------------------------------
(* C31: total_dir_count *)

\* the directories the walk of root d has visited, the skipped ones apart
VisitedUnder(d) == {trace[k].path : k \in {v \in Events("visit") : trace[v].other = d}}

\* the directories in which a skip answer was given
SkipRaisedIn == {trace[k].path : k \in Events("skip")}

\* C31: total_dir_count of a root is the number of directories its walk has
\* visited, each of them at or below the root and counted once, the empty
\* ones and those in which a skip was raised included; a directory passed
\* over while skipping is not counted.
C31_DirCountIsVisits ==
    Validated =>
        LET V == Events("visit")
        IN  \A d \in DOMAIN dir_stats :
                LET Vd == {v \in V : trace[v].other = d}
                IN  /\ dir_stats[d].total_dir_count = Cardinality(Vd)
                    /\ \A v \in Vd : AtOrUnder(trace[v].path, d)
                    /\ \A i, j \in Vd : trace[i].path = trace[j].path => i = j

\* a run has ended in which a skip was raised in a counted directory of the
\* target walk, a directory under it was passed over, and an empty directory
\* was counted
C31_Witness ==
    /\ pc = "done"
    /\ \E k \in Events("skip") :
           /\ trace[k].phase = "target"
           /\ trace[k].path \in VisitedUnder(trace[k - 2].other)
    /\ Events("skipped") # {}
    /\ \E t \in Range(targets) : \E p \in VisitedUnder(t) :
           \A f \in DOMAIN files0 : Front(f) # p

----------------------------------------------------------------------------
(* C32: failures of the retried removals *)

\* the step goes on to the removal of a directory of dir_stack: without
\* confirmation when it is popped, with confirmation when a line beginning
\* with y is read
RetryRemoves ==
    \/ pc = "retry" /\ dir_stack # <<>> /\ ~confirm
    \/ pc = "prompt" /\ pending.caller = "retry" /\ FirstLower(line') = <<"y">>

\* the directory the second pass is at, and the root it was stacked for
RetryDir == IF pc = "retry" THEN Last(dir_stack)[1] ELSE pending.path
RetryRoot == IF pc = "retry" THEN Last(dir_stack)[2] ELSE pending.root

\* a retried removal of a directory that still holds something changes
\* nothing but dir_stack and the pass goes on; one of a path that is no
\* directory any more ends the run with the exception; one of an empty
\* directory removes it and counts it
C32_RetryStep ==
    RetryRemoves =>
        IF RetryDir \notin dirs
        THEN /\ pc' = "crashed" /\ exit_code' = "exception"
             /\ dirs' = dirs /\ dir_stats' = dir_stats
        ELSE IF ~IsEmptyDir(RetryDir)
        THEN /\ pc' = "retry" /\ exit_code' = "running"
             /\ dirs' = dirs /\ dir_stats' = dir_stats
             /\ dir_stack' = IF pc = "retry" THEN Front(dir_stack) ELSE dir_stack
        ELSE /\ pc' = "retry" /\ exit_code' = "running"
             /\ dirs' = dirs \ {RetryDir}
             /\ dir_stats'[RetryRoot].empty_dir_count =
                    dir_stats[RetryRoot].empty_dir_count + 1

\* C32: in the second pass of the pruner a removal that fails because the
\* directory is not empty raises nothing, counts nothing, leaves the directory
\* and goes on with the rest of dir_stack; a removal that fails for another
\* reason ends the run with the exception.
C32_OnlyNotEmptyIgnored == [][C32_RetryStep]_vars

\* the second pass ended with an exception on a directory stacked twice and
\* already removed, after a retry that succeeded
C32_Witness ==
    /\ pc = "crashed" /\ exit_code = "exception"
    /\ arg_child = ListArg(<<T, T>>)
    /\ \E k \in Events("rm") : trace[k].phase = "retry"

----------------------------------------------------------------------------
(* C33: the RuntimeError of target_file_dir *)

\* C33: no run ends with an uncaught exception; once the walk of the
\* read-only roots has begun every target root is a key of stats.dir_stats
\* and every row of the catalog has a key among the ancestors of its path, so
\* target_file_dir returns for whichever row a read-only file matches.
C33_NoInternalError ==
    /\ pc # "crashed" /\ exit_code # "exception"
    /\ (Validated /\ walk.phase # "target") =>
           /\ Range(targets) \subseteq DOMAIN dir_stats
           /\ \A i \in DOMAIN catalog :
                  \E d \in DOMAIN dir_stats :
                      AtOrUnder(Front(catalog[i].full_path), d)
    /\ \A k \in AsksOf("readonly") :
           \E d \in DOMAIN dir_stats :
               /\ AtOrUnder(Front(trace[k].path), d)
               /\ dir_stats[d].dup_file_count >= 1

\* a read-only file matched the row of a file that is not directly in its
\* target root, and the run ended
C33_Witness ==
    /\ pc = "done"
    /\ \E k \in AsksOf("readonly") :
           /\ Front(trace[k].path) \notin Range(targets)
           /\ Front(trace[k].path) \notin DOMAIN dir_stats

----------------------------------------------------------------------------
(* C34: one match per evaluated file *)

\* the step evaluates a file: the events it adds begin with the evaluation
Evaluates ==
    /\ pc = "walk"
    /\ Len(trace') > Len(trace)
    /\ trace'[Len(trace) + 1].ev = "eval"

\* the file the step evaluates, and the events the step adds
Evaluated == trace'[Len(trace) + 1].path
AddedBy(ev) == {n \in (Len(trace) + 1)..Len(trace') : trace'[n].ev = ev}

\* the rows of the bucket of file f whose file holds the bytes of f
EqualRows(f) ==
    {i \in DOMAIN catalog :
        /\ catalog[i].size = Len(files[f])
        /\ catalog[i].extension = get_extension(Last(f))
        /\ files[catalog[i].full_path] = files[f]}

\* the file of the row that the call made at n of the new history is about
RowFileOf(n) ==
    IF trace'[n].phase = "target" THEN trace'[n].other ELSE trace'[n].path

\* the evaluation of a file requests a deletion exactly when a row of its
\* bucket holds its bytes, requests one only, for the first such row, and
\* removes at most one file and one row
C34_EvalStep ==
    Evaluates =>
        /\ (AddedBy("ask") # {}) <=> (EqualRows(Evaluated) # {})
        /\ Cardinality(AddedBy("ask")) <= 1
        /\ Cardinality(AddedBy("rm")) <= 1
        /\ Cardinality(DOMAIN files \ DOMAIN files') <= 1
        /\ Len(catalog') >= Len(catalog) - 1
        /\ \A n \in AddedBy("ask") :
               \E i \in EqualRows(Evaluated) :
                   /\ catalog[i].full_path = RowFileOf(n)
                   /\ \A j \in EqualRows(Evaluated) : i <= j

\* C34: for each evaluated file only the rows of its (size, extension)
\* bucket are candidates, the first of them that holds the same bytes is the
\* one matched, and at most one row is matched and one deletion requested.
C34_FirstEqualCandidate == [][C34_EvalStep]_vars

\* a file was matched by a row that was not the first of its bucket
C34_Witness ==
    \E k \in AsksOf("target") :
        \E i, j \in DOMAIN catalog :
            /\ i < j
            /\ catalog[j].full_path = trace[k].other
            /\ catalog[i].extension = catalog[j].extension
            /\ catalog[i].size = catalog[j].size

----------------------------------------------------------------------------
(* C35 *)

\* no directory was reached between the events at i and j
NoneReachedBetween(i, j) == \A n \in Reached : ~(i < n /\ n < j)

\* the visit at v is over: another directory was reached since, or the file
\* loop of the visited directory has ended
VisitOver(v) ==
    \/ \E n \in Reached : n > v
    \/ walk.todo = {} /\ ~(pc = "prompt" /\ pending.caller = "walk")

\* the file f of a visited directory was left out of the visit at v
LeftOut(v, f) ==
    /\ VisitOver(v)
    /\ f \in DOMAIN files
    /\ Front(f) = trace[v].path
    /\ ~\E e \in Events("eval") :
          e > v /\ trace[e].path = f /\ NoneReachedBetween(v, e)

\* C35: a skip signal for directory D suppresses only D's remaining files and
\* D's descendants: a directory is passed over only if it is D or lies below
\* D for a skip signal raised since the last directory that was evaluated (so
\* the first directory outside D, every directory after it, and the first
\* directory of every root are evaluated), and a file of an evaluated
\* directory is left out only if a skip signal for that very directory was
\* raised during its visit
C35_SkipRelease ==
    /\ \A j \in Events("skipped") :
          \E k \in Events("skip") :
             /\ k < j
             /\ \A n \in Events("visit") : ~(k < n /\ n < j)
             /\ trace[k].phase = trace[j].phase
             /\ AtOrUnder(trace[j].path, trace[k].path)
    /\ \A v \in Events("visit") : \A f \in DOMAIN files :
          LeftOut(v, f) =>
             \E k \in Events("skip") :
                /\ k > v /\ NoneReachedBetween(v, k)
                /\ trace[k].path = trace[v].path

\* the same for the skip signals of the target walk alone
C35_TargetSkipRelease ==
    /\ \A j \in Events("skipped") :
          trace[j].phase = "target" =>
             \E k \in Events("skip") :
                /\ k < j
                /\ \A n \in Events("visit") : ~(k < n /\ n < j)
                /\ trace[k].phase = "target"
                /\ AtOrUnder(trace[j].path, trace[k].path)
    /\ \A v \in Events("visit") : \A f \in DOMAIN files :
          (trace[v].phase = "target" /\ LeftOut(v, f)) =>
             \E k \in Events("skip") :
                /\ k > v /\ NoneReachedBetween(v, k)
                /\ trace[k].path = trace[v].path

\* a run in which a skip in the target walk left out a file and passed over a
\* subdirectory, and the root walked next was evaluated
C35_TargetWitness ==
    /\ pc = "done"
    /\ \E k \in Events("skip") :
          /\ trace[k].phase = "target"
          /\ \E v \in Events("visit") : \E f \in DOMAIN files : LeftOut(v, f)
          /\ \E j \in Events("skipped") : j > k
          /\ \E s \in RootStarts : s > k

----------------------------------------------------------------------------
(* C36 *)

\* the contents held by the files of the file system fs
ContentsOf(fs) == {fs[f] : f \in DOMAIN fs}

\* no read-only root is a target root or lies below one
RootsApart ==
    \A r \in Range(readonly) : \A t \in Range(targets) : ~AtOrUnder(r, t)

\* C36: content preservation: when a run whose roots passed check_dir_args
\* ends, every content that a file held before the run is still held by a
\* file on disk, so every deleted file has a byte-identical file left
C36_ContentPreserved ==
    (pc = "done" /\ Validated) => ContentsOf(files0) \subseteq ContentsOf(files)

\* the same for the runs whose read-only roots are outside the target roots,
\* in every state of the run
C36_ContentPreservedApart ==
    (Validated /\ RootsApart) => ContentsOf(files0) \subseteq ContentsOf(files)

\* a finished run with separate roots that deleted files in both walks
C36_ApartWitness ==
    /\ pc = "done" /\ Validated /\ RootsApart
    /\ \E k \in Events("rm") : trace[k].phase = "target"
    /\ \E k \in Events("rm") : trace[k].phase = "readonly"

----------------------------------------------------------------------------
(* C37 *)

\* the rows i and j of the catalog are of one bucket: equal size and extension
SameBucket(i, j) ==
    /\ catalog[i].size = catalog[j].size
    /\ catalog[i].extension = catalog[j].extension

\* C37: bucket-level uniqueness: in every reachable state no two rows of the
\* catalog with the same size and the same extension are files of the same
\* bytes, so a file evaluated against its bucket equals at most one candidate
C37_BucketUnique ==
    \A i, j \in 1..Len(catalog) :
        (i # j /\ SameBucket(i, j))
            => files0[catalog[i].full_path] # files0[catalog[j].full_path]

\* a bucket of two rows, the second of which was matched by a file evaluated
\* later
C37_Witness ==
    \E i, j \in 1..Len(catalog) :
        /\ i < j /\ SameBucket(i, j)
        /\ \E k \in Events("ask") : trace[k].other = catalog[j].full_path

----------------------------------------------------------------------------
(* C38 *)

\* the file of row n is on disk, with the size and extension of the row
RowOnDisk(n) ==
    /\ catalog[n].full_path \in DOMAIN files
    /\ Len(files[catalog[n].full_path]) = catalog[n].size
    /\ get_extension(Last(catalog[n].full_path)) = catalog[n].extension

\* C38: between two file evaluations every row of the catalog refers to a
\* file that is on disk with the size and extension recorded in the row, so
\* the byte comparison against a row never fails on a missing file
C38_RowsOnDisk ==
    pc = "walk" => \A n \in 1..Len(catalog) : RowOnDisk(n)

\* between two evaluations of the read-only walk, after files were deleted in
\* both walks, with rows left in the catalog
C38_Witness ==
    /\ pc = "walk" /\ walk.phase = "readonly"
    /\ catalog # <<>>
    /\ \E k \in Events("rm") : trace[k].phase = "target"
    /\ \E k \in Events("rm") : trace[k].phase = "readonly"

----------------------------------------------------------------------------
(* C39 *)

----------------------------------------------------------------------------
(* C40 *)

\* the files under root t that the run has deleted
DeletedUnder(t) == {f \in DOMAIN files0 \ DOMAIN files : AtOrUnder(f, t)}

\* the bytes of the files of the set S
RECURSIVE SizeOfFiles(_)
SizeOfFiles(S) ==
    IF S = {} THEN 0
    ELSE LET f == CHOOSE x \in S : TRUE
         IN  Len(files0[f]) + SizeOfFiles(S \ {f})

\* the duplicate counters of target root t are the number and the size of the
\* files deleted under it
CountersAreDeletions(t) ==
    /\ dir_stats[t].dup_file_count = Cardinality(DeletedUnder(t))
    /\ dir_stats[t].dup_file_size = SizeOfFiles(DeletedUnder(t))

\* C40: at the end of every run that is not ended by quit, interactive or
\* not, dup_file_count of each target root is the number of files under that
\* root that were deleted during the run, and dup_file_size the sum of their
\* sizes
C40_DupCountIsDeletions ==
    (pc = "done" /\ Validated) =>
        \A t \in Range(targets) : CountersAreDeletions(t)

\* the same for the non-interactive runs whose read-only roots are outside
\* the target roots
C40_DupCountIsDeletionsUnasked ==
    (pc = "done" /\ Validated /\ ~confirm /\ RootsApart) =>
        \A t \in Range(targets) : CountersAreDeletions(t)

\* such a run that deleted files in both walks
C40_UnaskedWitness ==
    /\ pc = "done" /\ Validated /\ ~confirm /\ RootsApart
    /\ \E k \in Events("rm") : trace[k].phase = "target"
    /\ \E k \in Events("rm") : trace[k].phase = "readonly"

\* in every finished run the counters are at least the deletions
C40_DupCountAtLeastDeletions ==
    (pc = "done" /\ Validated /\ RootsApart) =>
        \A t \in Range(targets) :
            /\ dir_stats[t].dup_file_count >= Cardinality(DeletedUnder(t))
            /\ dir_stats[t].dup_file_size >= SizeOfFiles(DeletedUnder(t))

====
